---- MODULE Spec2Model ----
(***************************************************************************)
(* Model of the sc-component-manager download / dependency utilities:      *)
(*   src/src/manager/utils/sc_component_utils.cpp                          *)
(*   src/src/manager/commands/command_init/repos_downloader/               *)
(*       downloader_handler.cpp                                            *)
(* The knowledge base (sc-memory) is a record kb that the modelled code    *)
(* only reads.  Every relation is kept as a sequence: the order of the     *)
(* sequence is the order in which an sc-iterator yields the elements.      *)
(* Strings are sequences of tokens, so that concatenation is \o.           *)
(***************************************************************************)
EXTENDS Integers, Sequences, FiniteSets, TLC

VARIABLES kb, pc, call, ret, dl, trace, run

vars == <<kb, pc, call, ret, dl, trace, run>>

(***************************************************************************)
(* Bounds and universes                                                    *)
(***************************************************************************)
MaxLen == 2
MaxSets == 2
MaxArcs == 3
MaxScripts == 3

Comp == {"c1", "c2", "c3"}
AddrNodes == {"a1", "a2"}
Links == {"l1", "l2"}

\* ScAddr::Empty, the invalid sc-addr
Empty == "ScAddr::Empty"

concept_repository == "concept_repository"
concept_reusable_component_specification == "concept_reusable_component_specification"
concept_github_url == "concept_github_url"
concept_google_drive_url == "concept_google_drive_url"

\* sequences over S of length at most n: level holds those of one length
RECURSIVE SeqsFrom(_, _, _)
SeqsFrom(S, level, n) ==
  IF n = 0 THEN level
  ELSE level \cup SeqsFrom(S, {<<x>> \o s : s \in level, x \in S}, n - 1)

SeqsUpTo(S, n) == SeqsFrom(S, {<<>>}, n)

Range(s) == {s[i] : i \in 1..Len(s)}

\* a member of an alternative-address set: el is the address node, rrel_1
\* tells whether the membership arc carries the role relation rrel_1
AltMembers == [el : AddrNodes, rrel_1 : BOOLEAN]

NoException == "none"

(***************************************************************************)
(* sc-agents-common helpers, as they are used by the utilities             *)
(***************************************************************************)
\* CommonUtils::isEmpty: no outgoing membership arc
isEmpty(set) == set = <<>>

\* IteratorUtils::getAnyFromSet: the first element the 3-iterator yields
getAnyFromSet(set) == IF set = <<>> THEN Empty ELSE set[1].el

\* IteratorUtils::getFirstFromSet(ctx, set, getStrictlyFirst = true): the first
\* element the 5-iterator with rrel_1 yields, the empty sc-addr when none
getFirstFromSet(set) ==
  LET flagged == {i \in 1..Len(set) : set[i].rrel_1}
  IN IF flagged = {} THEN Empty
     ELSE set[CHOOSE i \in flagged : \A j \in flagged : i <= j].el

\* IteratorUtils::getAllWithType(ctx, addr, ScType::LinkConst)
getAllWithType(st, addr) == IF addr \in AddrNodes THEN st.addrLinks[addr] ELSE <<>>

(***************************************************************************)
(* SearchUtils::GetSpecificationAddress                                    *)
(***************************************************************************)
NoAltSetMsg == "No alternative addresses set found"
EmptyAltSetMsg == "Alternative addresses set is empty"
NoLinksMsg == "No sc-links connected with address node"
NoRepoAddrMsg == "No address found for repository"
NoRepoLinksMsg == "No links for repository address found"

Throw(type, msg) == [exc |-> type, msg |-> msg, val |-> <<>>]
Return(links) == [exc |-> NoException, msg |-> "", val |-> links]

\* faulty variant: the primary member is ignored, any member is taken
GetSpecificationAddress_AnyMember(st, n) ==
  IF st.alt[n] = <<>> THEN Throw("ExceptionItemNotFound", NoAltSetMsg)
  ELSE LET alternativeAddressesSet == st.alt[n][1]
       IN IF isEmpty(alternativeAddressesSet) THEN Throw("ExceptionAssert", EmptyAltSetMsg)
          ELSE LET specificationAddressLinks ==
                     getAllWithType(st, getAnyFromSet(alternativeAddressesSet))
               IN IF specificationAddressLinks = <<>>
                  THEN Throw("ExceptionAssert", NoLinksMsg)
                  ELSE Return(specificationAddressLinks)

\* faulty variant: the check for an address node without links is missing
GetSpecificationAddress_NoLinkCheck(st, n) ==
  IF st.alt[n] = <<>> THEN Throw("ExceptionItemNotFound", NoAltSetMsg)
  ELSE LET alternativeAddressesSet == st.alt[n][1]
       IN IF isEmpty(alternativeAddressesSet) THEN Throw("ExceptionAssert", EmptyAltSetMsg)
          ELSE LET first == getFirstFromSet(alternativeAddressesSet)
                   specificationAddressAddr ==
                     IF first = Empty THEN getAnyFromSet(alternativeAddressesSet) ELSE first
               IN Return(getAllWithType(st, specificationAddressAddr))

GetSpecificationAddress(st, n) ==
  IF st.alt[n] = <<>> THEN Throw("ExceptionItemNotFound", NoAltSetMsg)
  ELSE LET alternativeAddressesSet == st.alt[n][1]
       IN IF isEmpty(alternativeAddressesSet) THEN Throw("ExceptionAssert", EmptyAltSetMsg)
          ELSE LET first == getFirstFromSet(alternativeAddressesSet)
                   specificationAddressAddr ==
                     IF first = Empty THEN getAnyFromSet(alternativeAddressesSet) ELSE first
                   specificationAddressLinks == getAllWithType(st, specificationAddressAddr)
               IN IF specificationAddressLinks = <<>>
                  THEN Throw("ExceptionAssert", NoLinksMsg)
                  ELSE Return(specificationAddressLinks)

(***************************************************************************)
(* SearchUtils::GetRepositoryAddress                                       *)
(***************************************************************************)
GetRepositoryAddress(st, n) ==
  IF st.repo[n] = <<>> THEN Throw("ExceptionItemNotFound", NoRepoAddrMsg)
  ELSE LET repositoryAddressAddr == st.repo[n][1]
       IN IF st.addrLinks[repositoryAddressAddr] = <<>>
          THEN Throw("ExceptionItemNotFound", NoRepoLinksMsg)
          ELSE Return(<<st.addrLinks[repositoryAddressAddr][1]>>)

(***************************************************************************)
(* Knowledge bases                                                         *)
(***************************************************************************)
LinkContent == [l \in Links |-> <<"https://host/", l>>]

EmptyKb ==
  [classes   |-> [c \in Comp |-> {}],
   alt       |-> [c \in Comp |-> <<>>],
   repo      |-> [c \in Comp |-> <<>>],
   addrLinks |-> [a \in AddrNodes |-> <<>>],
   urlClass  |-> [l \in Links |-> {}],
   deps      |-> [c \in Comp |-> <<>>],
   reusable  |-> [c \in Comp |-> FALSE],
   method    |-> [c \in Comp |-> <<>>],
   scripts   |-> [c \in Comp |-> <<>>]]

AltSets == SeqsUpTo(AltMembers, MaxLen)
LinkSeqs == SeqsUpTo(Links, MaxLen)

\* the alternative-address relations of one specification: none, one set, or
\* a set followed by a second relation
AltRelations ==
  {<<>>} \cup {<<s>> : s \in AltSets}
         \cup {<<s, t>> : s \in AltSets, t \in {<<>>, <<[el |-> "a1", rrel_1 |-> TRUE]>>}}

RepoRelations == SeqsUpTo(AddrNodes, MaxLen)

NoCall == [fn |-> "none", arg |-> "none"]
NoRet == [exc |-> NoException, msg |-> "", val |-> <<>>]
NoDl ==
  [node |-> "none", nodeClassAddr |-> Empty, downloadPath |-> <<>>,
   nodeAddressLinkAddrs |-> <<>>, specificationPostfix |-> <<>>, idx |-> 0,
   log |-> <<>>, exc |-> NoRet]
NoRun ==
  [root |-> "none", err |-> NoException, order |-> <<>>, pos |-> 0,
   outcome |-> [c \in Comp |-> "Pending"]]

(***************************************************************************)
(* Address discovery as a called function                                  *)
(***************************************************************************)
InitAddress ==
  /\ \E al \in [AddrNodes -> LinkSeqs] :
       \/ \E a \in AltRelations : kb = [EmptyKb EXCEPT !.alt["c1"] = a, !.addrLinks = al]
       \/ \E r \in RepoRelations : kb = [EmptyKb EXCEPT !.repo["c1"] = r, !.addrLinks = al]
  /\ pc = "idle"
  /\ call = NoCall
  /\ ret = NoRet
  /\ dl = NoDl
  /\ trace = <<>>
  /\ run = NoRun

CallGetSpecificationAddress ==
  /\ pc = "idle"
  /\ \E n \in Comp :
       /\ call' = [fn |-> "GetSpecificationAddress", arg |-> n]
       /\ ret' = GetSpecificationAddress(kb, n)
  /\ pc' = "returned"
  /\ UNCHANGED <<kb, dl, trace, run>>

CallGetRepositoryAddress ==
  /\ pc = "idle"
  /\ \E n \in Comp :
       /\ call' = [fn |-> "GetRepositoryAddress", arg |-> n]
       /\ ret' = GetRepositoryAddress(kb, n)
  /\ pc' = "returned"
  /\ UNCHANGED <<kb, dl, trace, run>>

NextAddress == CallGetSpecificationAddress \/ CallGetRepositoryAddress

SpecAddress == InitAddress /\ [][NextAddress]_vars

(***************************************************************************)
(* Claims on address discovery                                             *)
(***************************************************************************)
Returned(fn) == pc = "returned" /\ call.fn = fn

PrimaryMembers(set) == {i \in 1..Len(set) : set[i].rrel_1}

\* C1: when GetSpecificationAddress has returned for a specification whose
\* alternative-address set holds a member flagged as primary (rrel_1), the
\* outcome is that of a primary member: returned links are the links of a
\* primary member, and a "no links" failure is that of a primary member
\* without links; other members of the set never decide the outcome.
C1_PrimarySelected ==
  (Returned("GetSpecificationAddress") /\ kb.alt[call.arg] # <<>>
     /\ PrimaryMembers(kb.alt[call.arg][1]) # {})
  => LET set == kb.alt[call.arg][1]
     IN /\ ret.exc = NoException
             => \E i \in PrimaryMembers(set) : ret.val = kb.addrLinks[set[i].el]
        /\ ret.exc # NoException
             => /\ ret.msg = NoLinksMsg
                /\ \E i \in PrimaryMembers(set) : kb.addrLinks[set[i].el] = <<>>

\* a primary member stands behind a non-primary member that has other links
C1_Witness ==
  /\ Returned("GetSpecificationAddress")
  /\ kb.alt[call.arg] # <<>>
  /\ Len(kb.alt[call.arg][1]) >= 2
  /\ LET set == kb.alt[call.arg][1]
     IN /\ ~set[1].rrel_1 /\ set[2].rrel_1 /\ set[1].el # set[2].el
        /\ kb.addrLinks[set[1].el] # <<>>
        /\ kb.addrLinks[set[2].el] # <<>>
        /\ kb.addrLinks[set[1].el] # kb.addrLinks[set[2].el]
        /\ ret.val = kb.addrLinks[set[2].el]

m_downloadDir == <<"m_downloadDir">>
DIRECTORY_DELIMETR == <<"/">>
SVN_TRUNK == <<"/trunk">>
SPECIFICATION_FILENAME == <<"specification.scs">>

ClassNotFoundLog == "Can't download. Downloadable class not found"
CantCreateFolderLog == "Can't download. Can't create folder."

\* ScMemoryContext::HelperGetSystemIdtf
HelperGetSystemIdtf(n) ==
  CASE n = "c1" -> <<"component_one">>
    [] n = "c2" -> <<"component_two">>
    [] OTHER -> <<"component_three">>

\* ScMemoryContext::GetLinkContent
GetLinkContent(l) == LinkContent[l]

getDownloadableClass(st, nodeAddr) ==
  IF concept_repository \in st.classes[nodeAddr] THEN concept_repository
  ELSE IF concept_reusable_component_specification \in st.classes[nodeAddr]
       THEN concept_reusable_component_specification
       ELSE Empty

getUrlLinkClass(st, linkAddr) ==
  IF concept_github_url \in st.urlClass[linkAddr] THEN concept_github_url
  ELSE IF concept_google_drive_url \in st.urlClass[linkAddr] THEN concept_google_drive_url
       ELSE Empty

\* the effects of Download, in the order they happen
MkdirsEvent(path, ok) == [op |-> "sc_fs_mkdirs", path |-> path, ok |-> ok]
LookupEvent(fn, n) == [op |-> fn, node |-> n]
DownloadEvent(downloader, link, url, path) ==
  [op |-> "Downloader::Download", downloader |-> downloader, link |-> link,
   url |-> url, path |-> path]

\* lines 131-139: classification, early return, destination path
\* faulty variant: the return after the error log is missing
StepClassify_NoReturn(st, d) ==
  LET nodeClassAddr == getDownloadableClass(st, d.node)
  IN [pc |-> "mkdirs",
      dl |-> [d EXCEPT !.nodeClassAddr = nodeClassAddr,
                       !.log = IF nodeClassAddr = Empty THEN Append(@, ClassNotFoundLog) ELSE @,
                       !.downloadPath =
                          m_downloadDir \o DIRECTORY_DELIMETR \o HelperGetSystemIdtf(d.node)]]

StepClassify(st, d) ==
  LET nodeClassAddr == getDownloadableClass(st, d.node)
  IN IF nodeClassAddr = Empty
     THEN [pc |-> "done", dl |-> [d EXCEPT !.log = Append(@, ClassNotFoundLog)]]
     ELSE [pc |-> "mkdirs",
           dl |-> [d EXCEPT !.nodeClassAddr = nodeClassAddr,
                            !.downloadPath =
                               m_downloadDir \o DIRECTORY_DELIMETR \o HelperGetSystemIdtf(d.node)]]

\* lines 141-145: sc_fs_mkdirs, ok is what the filesystem answers
\* faulty variant: the return after the error log is missing
StepMkdirs_NoReturn(d, tr, ok) ==
  [pc |-> "address",
   dl |-> [d EXCEPT !.log = IF ok THEN @ ELSE Append(@, CantCreateFolderLog)],
   trace |-> Append(tr, MkdirsEvent(d.downloadPath, ok))]

StepMkdirs(d, tr, ok) ==
  IF ~ok
  THEN [pc |-> "done", dl |-> [d EXCEPT !.log = Append(@, CantCreateFolderLog)],
        trace |-> Append(tr, MkdirsEvent(d.downloadPath, FALSE))]
  ELSE [pc |-> "address", dl |-> d,
        trace |-> Append(tr, MkdirsEvent(d.downloadPath, TRUE))]

\* lines 148-157: address lookup by class; an exception leaves Download
\* faulty variant: the specification postfix is set for every class
StepAddress_PostfixAlways(st, d, tr) ==
  LET spec == d.nodeClassAddr = concept_reusable_component_specification
      r == IF spec THEN GetSpecificationAddress(st, d.node) ELSE GetRepositoryAddress(st, d.node)
      tr2 == Append(tr, LookupEvent(IF spec THEN "GetSpecificationAddress"
                                            ELSE "GetRepositoryAddress", d.node))
  IN IF r.exc # NoException
     THEN [pc |-> "done", dl |-> [d EXCEPT !.exc = r], trace |-> tr2]
     ELSE [pc |-> "links",
           dl |-> [d EXCEPT !.nodeAddressLinkAddrs = r.val,
                            !.specificationPostfix = SPECIFICATION_FILENAME,
                            !.idx = 1],
           trace |-> tr2]

StepAddress(st, d, tr) ==
  IF d.nodeClassAddr = concept_reusable_component_specification
  THEN LET r == GetSpecificationAddress(st, d.node)
           tr2 == Append(tr, LookupEvent("GetSpecificationAddress", d.node))
       IN IF r.exc # NoException
          THEN [pc |-> "done", dl |-> [d EXCEPT !.exc = r], trace |-> tr2]
          ELSE [pc |-> "links",
                dl |-> [d EXCEPT !.nodeAddressLinkAddrs = r.val,
                                 !.specificationPostfix = SPECIFICATION_FILENAME,
                                 !.idx = 1],
                trace |-> tr2]
  ELSE LET r == GetRepositoryAddress(st, d.node)
           tr2 == Append(tr, LookupEvent("GetRepositoryAddress", d.node))
       IN IF r.exc # NoException
          THEN [pc |-> "done", dl |-> [d EXCEPT !.exc = r], trace |-> tr2]
          ELSE [pc |-> "links",
                dl |-> [d EXCEPT !.nodeAddressLinkAddrs = r.val, !.idx = 1],
                trace |-> tr2]

\* lines 159-170: one iteration of the loop over the address links
\* faulty variant: the class of the link is not compared with concept_github_url
StepLink_NoClassTest(st, d, tr) ==
  LET currentAddressLinkAddr == d.nodeAddressLinkAddrs[d.idx]
      url == GetLinkContent(currentAddressLinkAddr)
      pathPostfix == SVN_TRUNK \o DIRECTORY_DELIMETR \o d.specificationPostfix
  IN [pc |-> "links",
      dl |-> [d EXCEPT !.idx = @ + 1],
      trace |-> Append(tr, DownloadEvent("DownloaderGit", currentAddressLinkAddr,
                                         url \o pathPostfix, d.downloadPath))]

StepLink(st, d, tr) ==
  LET currentAddressLinkAddr == d.nodeAddressLinkAddrs[d.idx]
      linkAddressClassAddr == getUrlLinkClass(st, currentAddressLinkAddr)
      url == GetLinkContent(currentAddressLinkAddr)
      pathPostfix == SVN_TRUNK \o DIRECTORY_DELIMETR \o d.specificationPostfix
  IN [pc |-> "links",
      dl |-> [d EXCEPT !.idx = @ + 1],
      trace |-> IF linkAddressClassAddr = concept_github_url
                THEN Append(tr, DownloadEvent("DownloaderGit", currentAddressLinkAddr,
                                              url \o pathPostfix, d.downloadPath))
                ELSE tr]

DownloadCall ==
  /\ pc = "idle"
  /\ \E n \in Comp : dl' = [NoDl EXCEPT !.node = n]
  /\ call' = [fn |-> "Download", arg |-> dl'.node]
  /\ pc' = "classify"
  /\ UNCHANGED <<kb, ret, trace, run>>

DownloadClassify ==
  /\ pc = "classify"
  /\ LET s == StepClassify(kb, dl) IN pc' = s.pc /\ dl' = s.dl
  /\ UNCHANGED <<kb, call, ret, trace, run>>

DownloadMkdirs ==
  /\ pc = "mkdirs"
  /\ \E ok \in BOOLEAN :
       LET s == StepMkdirs(dl, trace, ok) IN pc' = s.pc /\ dl' = s.dl /\ trace' = s.trace
  /\ UNCHANGED <<kb, call, ret, run>>

DownloadAddress ==
  /\ pc = "address"
  /\ LET s == StepAddress(kb, dl, trace) IN pc' = s.pc /\ dl' = s.dl /\ trace' = s.trace
  /\ UNCHANGED <<kb, call, ret, run>>

DownloadLink ==
  /\ pc = "links"
  /\ dl.idx <= Len(dl.nodeAddressLinkAddrs)
  /\ LET s == StepLink(kb, dl, trace) IN pc' = s.pc /\ dl' = s.dl /\ trace' = s.trace
  /\ UNCHANGED <<kb, call, ret, run>>

DownloadReturn ==
  /\ pc = "links"
  /\ dl.idx > Len(dl.nodeAddressLinkAddrs)
  /\ pc' = "done"
  /\ UNCHANGED <<kb, call, ret, dl, trace, run>>

UrlClassings == [Links -> SUBSET {concept_github_url, concept_google_drive_url}]

DownloadAltRelations ==
  {<<>>, <<<<>>>>, <<<<[el |-> "a1", rrel_1 |-> FALSE], [el |-> "a2", rrel_1 |-> TRUE]>>>>}

RepositoryClassings ==
  {{concept_repository}, {concept_repository, concept_reusable_component_specification}}

InitDownload ==
  /\ \E al \in [AddrNodes -> LinkSeqs], uc \in UrlClassings :
       \/ \E a \in DownloadAltRelations :
            kb = [EmptyKb EXCEPT !.classes["c1"] = {concept_reusable_component_specification},
                                 !.alt["c1"] = a, !.addrLinks = al, !.urlClass = uc]
       \/ \E cl \in RepositoryClassings, r \in {<<>>, <<"a1">>} :
            kb = [EmptyKb EXCEPT !.classes["c1"] = cl, !.repo["c1"] = r,
                                 !.addrLinks = al, !.urlClass = uc]
  /\ pc = "idle"
  /\ call = NoCall
  /\ ret = NoRet
  /\ dl = NoDl
  /\ trace = <<>>
  /\ run = NoRun

NextDownload ==
  \/ DownloadCall
  \/ DownloadClassify
  \/ DownloadMkdirs
  \/ DownloadAddress
  \/ DownloadLink
  \/ DownloadReturn

SpecDownload == InitDownload /\ [][NextDownload]_vars


(***************************************************************************)
(* Claims on DownloaderHandler::Download                                   *)
(***************************************************************************)
Events(tr, ops) == SelectSeq(tr, LAMBDA e : e.op \in ops)
Lookups == {"GetSpecificationAddress", "GetRepositoryAddress"}
DownloadDone == pc = "done" /\ call.fn = "Download"
FailureReported == dl.log # <<>> \/ dl.exc.exc # NoException
ResolvedLinks == Range(dl.nodeAddressLinkAddrs)

\* C3: when Download has finished for a component whose resolved links all
\* carry no known hosting-scheme tag, a failure has been reported.
C3_UnsupportedSchemeReported ==
  (DownloadDone /\ ResolvedLinks # {}
     /\ \A l \in ResolvedLinks : getUrlLinkClass(kb, l) = Empty)
  => FailureReported

\* C4: when Download has finished, every resolved link classified under a
\* supported hosting scheme was handed to the Downloader of that scheme; in
\* particular a cloud-drive link was downloaded by the cloud-drive variant.
DownloaderOf(class) ==
  IF class = concept_github_url THEN "DownloaderGit" ELSE "DownloaderGoogleDrive"

C4_DownloaderMatchesScheme ==
  DownloadDone
  => \A l \in ResolvedLinks :
       getUrlLinkClass(kb, l) # Empty
       => \E i \in 1..Len(trace) :
            /\ trace[i].op = "Downloader::Download"
            /\ trace[i].link = l
            /\ trace[i].downloader = DownloaderOf(getUrlLinkClass(kb, l))

\* C5: every directory creation and every download of a Download call targets
\* m_downloadDir / system identifier of the node, and once the directory could
\* not be created Download is over with the "can't create folder" error, with
\* no address lookup and no Downloader call.
MkdirsFailed == \E i \in 1..Len(trace) : trace[i].op = "sc_fs_mkdirs" /\ ~trace[i].ok

C5_DestinationAndMkdirsFailure ==
  call.fn = "Download"
  => /\ \A i \in 1..Len(trace) :
          trace[i].op \in {"sc_fs_mkdirs", "Downloader::Download"}
          => trace[i].path = <<"m_downloadDir", "/">> \o HelperGetSystemIdtf(dl.node)
     /\ MkdirsFailed
          => /\ pc = "done"
             /\ dl.log = <<CantCreateFolderLog>>
             /\ Events(trace, Lookups \cup {"Downloader::Download"}) = <<>>

C5_Witness ==
  /\ DownloadDone /\ MkdirsFailed
  /\ kb.repo[dl.node] # <<>>
  /\ kb.addrLinks[kb.repo[dl.node][1]] # <<>>

\* C6: a node that is neither a repository nor a reusable component
\* specification makes Download end right after classification with the
\* "class not found" error: no directory creation, no lookup, no download.
C6_ClassNotFoundNoEffects ==
  (call.fn = "Download" /\ pc \notin {"idle", "classify"}
     /\ kb.classes[dl.node] \cap {concept_repository,
                                  concept_reusable_component_specification} = {})
  => pc = "done" /\ dl.log = <<ClassNotFoundLog>> /\ trace = <<>>

C6_Witness ==
  /\ DownloadDone
  /\ kb.classes[dl.node] = {}
  /\ dl.log = <<ClassNotFoundLog>>

\* C7 as stated: a specification download gets the specification filename
\* appended, a repository download gets the raw content of the link.
C7_RepositoryRawAddress ==
  call.fn = "Download"
  => \A i \in 1..Len(trace) :
       trace[i].op = "Downloader::Download"
       => IF dl.nodeClassAddr = concept_reusable_component_specification
          THEN trace[i].url =
                 LinkContent[trace[i].link] \o <<"/trunk", "/", "specification.scs">>
          ELSE trace[i].url = LinkContent[trace[i].link]

\* C7 amended: the source is the content of the link followed by the trunk
\* postfix and the directory delimiter, and then by the specification filename
\* for a specification and by nothing more for a repository.
C7_SourceByKind ==
  call.fn = "Download"
  => \A i \in 1..Len(trace) :
       trace[i].op = "Downloader::Download"
       => IF dl.nodeClassAddr = concept_reusable_component_specification
          THEN trace[i].url =
                 LinkContent[trace[i].link] \o <<"/trunk", "/", "specification.scs">>
          ELSE trace[i].url = LinkContent[trace[i].link] \o <<"/trunk", "/">>

C7_Witness ==
  /\ DownloadDone
  /\ dl.nodeClassAddr = concept_repository
  /\ Events(trace, {"Downloader::Download"}) # <<>>


(***************************************************************************)
(* SearchUtils::GetComponentDependencies                                   *)
(***************************************************************************)
RECURSIVE Flatten(_)
Flatten(ss) == IF ss = <<>> THEN <<>> ELSE Head(ss) \o Flatten(Tail(ss))

\* faulty variant: only the first dependencies set is read (if instead of while)
GetComponentDependencies_FirstSetOnly(st, componentAddr) ==
  IF st.deps[componentAddr] = <<>> THEN <<>> ELSE st.deps[componentAddr][1]

\* every nrel_component_dependencies set in iterator order, the members of
\* each appended to the result vector
GetComponentDependencies(st, componentAddr) == Flatten(st.deps[componentAddr])

DependencySets == SeqsUpTo(Comp, MaxLen)

InitDeps ==
  /\ \E d \in SeqsUpTo(DependencySets, MaxSets) : kb = [EmptyKb EXCEPT !.deps["c1"] = d]
  /\ pc = "idle"
  /\ call = NoCall
  /\ ret = NoRet
  /\ dl = NoDl
  /\ trace = <<>>
  /\ run = NoRun

CallGetComponentDependencies ==
  /\ pc = "idle"
  /\ \E n \in Comp :
       /\ call' = [fn |-> "GetComponentDependencies", arg |-> n]
       /\ ret' = Return(GetComponentDependencies(kb, n))
  /\ pc' = "returned"
  /\ UNCHANGED <<kb, dl, trace, run>>

NextDeps == CallGetComponentDependencies

SpecDeps == InitDeps /\ [][NextDeps]_vars

Occurrences(s, x) == Cardinality({i \in 1..Len(s) : s[i] = x})
SetsHolding(n, c) == {k \in 1..Len(kb.deps[n]) : c \in Range(kb.deps[n][k])}

\* C8: the result of GetComponentDependencies holds exactly the members of the
\* dependency sets of the component, and a component that is a member of
\* several of these sets is in the result once.
C8_UnionReturnedOnce ==
  Returned("GetComponentDependencies")
  => \A c \in Comp :
       /\ c \in Range(ret.val) <=> SetsHolding(call.arg, c) # {}
       /\ Cardinality(SetsHolding(call.arg, c)) >= 2 => Occurrences(ret.val, c) = 1


(***************************************************************************)
(* InstallUtils queries                                                    *)
(***************************************************************************)
IsReusable(st, componentAddr) == st.reusable[componentAddr]

GetComponentInstallationMethod(st, componentAddr) ==
  IF st.method[componentAddr] = <<>> THEN Empty ELSE st.method[componentAddr][1]

IsComponentInstallationMethodValid(st, componentAddr) ==
  GetComponentInstallationMethod(st, componentAddr) # Empty

\* faulty variant: the test for an empty script is missing
GetInstallScripts_KeepEmpty(st, componentAddr) == st.scripts[componentAddr]

\* the contents of the nrel_installation_script links in iterator order, the
\* empty ones left out
GetInstallScripts(st, componentAddr) ==
  SelectSeq(st.scripts[componentAddr], LAMBDA script : script # "")

(***************************************************************************)
(* DependencyResolver (section 4.1): depth-first traversal over             *)
(* GetComponentDependencies, dependencies first, cycle check on the path     *)
(***************************************************************************)
CyclicDependency == "CyclicDependency"

NoTraversal == [onPath |-> {}, visited |-> {}, order |-> <<>>, cycle |-> FALSE]

RECURSIVE Visit(_, _, _)
RECURSIVE VisitAll(_, _, _)
Visit(st, c, t) ==
  IF t.cycle THEN t
  ELSE IF c \in t.onPath THEN [t EXCEPT !.cycle = TRUE]
  ELSE IF c \in t.visited THEN t
  ELSE LET below == VisitAll(st, GetComponentDependencies(st, c),
                             [t EXCEPT !.onPath = @ \cup {c}])
       IN IF below.cycle THEN below
          ELSE [below EXCEPT !.onPath = @ \ {c},
                             !.visited = @ \cup {c},
                             !.order = Append(@, c)]

VisitAll(st, cs, t) ==
  IF cs = <<>> THEN t ELSE VisitAll(st, Tail(cs), Visit(st, Head(cs), t))

Resolve(st, root) ==
  LET t == Visit(st, root, NoTraversal)
  IN IF t.cycle THEN [err |-> CyclicDependency, order |-> <<>>]
     ELSE [err |-> NoException, order |-> t.order]

(***************************************************************************)
(* Whole calls of Download and Install, as the Pipeline Controller          *)
(* (section 4.6) makes them                                                 *)
(***************************************************************************)
RECURSIVE DownloadLinks(_, _, _)
DownloadLinks(st, d, tr) ==
  IF d.idx > Len(d.nodeAddressLinkAddrs) THEN [dl |-> d, trace |-> tr]
  ELSE LET s == StepLink(st, d, tr) IN DownloadLinks(st, s.dl, s.trace)

\* DownloaderHandler::Download from entry to return, ok the answer of sc_fs_mkdirs
Download(st, nodeAddr, tr, ok) ==
  LET s1 == StepClassify(st, [NoDl EXCEPT !.node = nodeAddr])
  IN IF s1.pc = "done" THEN [dl |-> s1.dl, trace |-> tr]
     ELSE LET s2 == StepMkdirs(s1.dl, tr, ok)
          IN IF s2.pc = "done" THEN [dl |-> s2.dl, trace |-> s2.trace]
             ELSE LET s3 == StepAddress(st, s2.dl, s2.trace)
                  IN IF s3.pc = "done" THEN [dl |-> s3.dl, trace |-> s3.trace]
                     ELSE DownloadLinks(st, s3.dl, s3.trace)

ScriptEvent(c, i, script, ok) ==
  [op |-> "script", component |-> c, index |-> i, script |-> script, ok |-> ok]

\* Installer (section 4.5): failAt is the position of the first script that
\* fails, 0 when none fails
Install(st, c, tr, failAt) ==
  IF ~IsReusable(st, c) THEN [outcome |-> "NotReusable", failed |-> <<>>, trace |-> tr]
  ELSE IF ~IsComponentInstallationMethodValid(st, c)
  THEN [outcome |-> "InvalidInstallationMethod", failed |-> <<>>, trace |-> tr]
  ELSE LET scripts == GetInstallScripts(st, c)
           last == IF failAt = 0 THEN Len(scripts) ELSE failAt
       IN [outcome |-> IF failAt = 0 THEN "Installed" ELSE "InstallScriptFailed",
           failed |-> IF failAt = 0 THEN <<>> ELSE <<failAt, scripts[failAt]>>,
           trace |-> tr \o [i \in 1..last |-> ScriptEvent(c, i, scripts[i], i # failAt)]]

(***************************************************************************)
(* Pipeline Controller (section 4.6)                                       *)
(***************************************************************************)
RunCall ==
  /\ pc = "idle"
  /\ \E root \in Comp :
       LET r == Resolve(kb, root)
       IN /\ call' = [fn |-> "Run", arg |-> root]
          /\ run' = [root |-> root, err |-> r.err, order |-> r.order, pos |-> 1,
                     outcome |-> [c \in Comp |->
                                    IF c \in Range(r.order) THEN "Resolved" ELSE "Pending"]]
          /\ pc' = IF r.err # NoException THEN "done" ELSE "run"
  /\ UNCHANGED <<kb, ret, dl, trace>>

RunComponent ==
  /\ pc = "run"
  /\ run.pos <= Len(run.order)
  /\ LET c == run.order[run.pos]
     IN \E ok \in BOOLEAN, failAt \in 0..Len(GetInstallScripts(kb, c)) :
          LET d == Download(kb, c, trace, ok)
              failed == d.dl.log # <<>> \/ d.dl.exc.exc # NoException
              reason == IF d.dl.exc.exc # NoException THEN d.dl.exc.msg
                        ELSE d.dl.log[Len(d.dl.log)]
              i == Install(kb, c, d.trace, failAt)
          IN /\ failed => failAt = 0
             /\ dl' = d.dl
             /\ trace' = IF failed THEN d.trace ELSE i.trace
             /\ run' = [run EXCEPT !.pos = @ + 1,
                                   !.outcome[c] = IF failed THEN reason ELSE i.outcome]
  /\ UNCHANGED <<kb, pc, call, ret>>

RunReport ==
  /\ pc = "run"
  /\ run.pos > Len(run.order)
  /\ pc' = "done"
  /\ UNCHANGED <<kb, call, ret, dl, trace, run>>

\* the dependency relations of one component holding k membership arcs
NonEmptySets == DependencySets \ {<<>>}
DependencyRelations == SeqsUpTo(NonEmptySets, MaxSets)
DepsWithArcs == [k \in 0..MaxArcs |-> {d \in DependencyRelations : Len(Flatten(d)) = k}]
ArcBudgets == {b \in [Comp -> 0..MaxArcs] : b["c1"] + b["c2"] + b["c3"] <= MaxArcs}
DependencyGraphs ==
  UNION {{[c \in Comp |-> d[c]] :
            d \in [c1 : DepsWithArcs[b["c1"]], c2 : DepsWithArcs[b["c2"]],
                   c3 : DepsWithArcs[b["c3"]]]} : b \in ArcBudgets}

\* every component is a specification with one primary address and one
\* github link, reusable, with an installation method and one script
RunKb(g) ==
  [EmptyKb EXCEPT
     !.deps = g,
     !.classes = [c \in Comp |-> {concept_reusable_component_specification}],
     !.alt = [c \in Comp |-> <<<<[el |-> "a1", rrel_1 |-> TRUE]>>>>],
     !.addrLinks = [a \in AddrNodes |-> <<"l1">>],
     !.urlClass = [l \in Links |-> {concept_github_url}],
     !.reusable = [c \in Comp |-> TRUE],
     !.method = [c \in Comp |-> <<"method">>],
     !.scripts = [c \in Comp |-> <<"install.sh">>]]

InitRun ==
  /\ \E g \in DependencyGraphs : kb = RunKb(g)
  /\ pc = "idle"
  /\ call = NoCall
  /\ ret = NoRet
  /\ dl = NoDl
  /\ trace = <<>>
  /\ run = NoRun

NextRun == RunCall \/ RunComponent \/ RunReport

SpecRun == InitRun /\ [][NextRun]_vars

(***************************************************************************)
(* Claims on dependency resolution                                         *)
(***************************************************************************)
Edge(a, b) == \E k \in 1..Len(kb.deps[a]) : b \in Range(kb.deps[a][k])

RECURSIVE Closure(_)
Closure(S) ==
  LET T == S \cup {b \in Comp : \E a \in S : Edge(a, b)}
  IN IF T = S THEN S ELSE Closure(T)

Reachable(root) == Closure({root})
DependsOn(a, b) == b \in Closure({c \in Comp : Edge(a, c)})
CycleReachable(root) == \E c \in Reachable(root) : DependsOn(c, c)

\* C9: for a root from which no cycle is reachable, Run resolves a list that
\* holds every component reachable from the root exactly once and no other
\* component, each dependency before every component depending on it.
C9_TopologicalOrder ==
  (call.fn = "Run" /\ ~CycleReachable(run.root))
  => /\ run.err = NoException
     /\ Range(run.order) = Reachable(run.root)
     /\ Len(run.order) = Cardinality(Reachable(run.root))
     /\ \A i, j \in 1..Len(run.order) : Edge(run.order[j], run.order[i]) => i < j

\* three components, one of them a dependency of both others
C9_Witness ==
  /\ call.fn = "Run" /\ ~CycleReachable(run.root)
  /\ Len(run.order) = 3 /\ run.order[3] = run.root
  /\ Edge(run.root, run.order[1]) /\ Edge(run.root, run.order[2])
  /\ Edge(run.order[2], run.order[1])

\* C10: for a root from which a cycle is reachable, Run ends with
\* CyclicDependency, holds no resolved list and has performed no directory
\* creation, no download and no install script.
C10_CycleAbortsRun ==
  (call.fn = "Run" /\ CycleReachable(run.root))
  => /\ pc = "done"
     /\ run.err = CyclicDependency
     /\ run.order = <<>>
     /\ trace = <<>>
     /\ \A c \in Comp : run.outcome[c] = "Pending"

\* X -> Y -> X
C10_Witness ==
  /\ call.fn = "Run" /\ pc = "done"
  /\ \E y \in Comp \ {run.root} : Edge(run.root, y) /\ Edge(y, run.root)
  /\ ~Edge(run.root, run.root)
  /\ run.err = CyclicDependency


(***************************************************************************)
(* Install scripts: GetInstallScripts and the Installer as called functions *)
(***************************************************************************)
ScriptContents == {"", "A", "B", "C"}

InitInstall ==
  /\ \E r \in BOOLEAN, m \in {<<>>, <<"method">>},
        sc \in SeqsUpTo(ScriptContents, MaxScripts) :
       kb = [EmptyKb EXCEPT !.reusable["c1"] = r, !.method["c1"] = m, !.scripts["c1"] = sc]
  /\ pc = "idle"
  /\ call = NoCall
  /\ ret = NoRet
  /\ dl = NoDl
  /\ trace = <<>>
  /\ run = NoRun

CallGetInstallScripts ==
  /\ pc = "idle"
  /\ \E n \in Comp :
       /\ call' = [fn |-> "GetInstallScripts", arg |-> n]
       /\ ret' = Return(GetInstallScripts(kb, n))
  /\ pc' = "returned"
  /\ UNCHANGED <<kb, dl, trace, run>>

\* one call of Install; failAt is the first script the shell reports as failed
InstallCall ==
  /\ pc = "idle"
  /\ \E c \in Comp :
     \E failAt \in 0..Len(GetInstallScripts(kb, c)) :
       LET i == Install(kb, c, trace, failAt)
       IN /\ i.outcome \in {"NotReusable", "InvalidInstallationMethod"} => failAt = 0
          /\ call' = [fn |-> "Install", arg |-> c]
          /\ ret' = [exc |-> IF i.outcome = "Installed" THEN NoException ELSE i.outcome,
                     msg |-> "", val |-> i.failed]
          /\ trace' = i.trace
  /\ pc' = "returned"
  /\ UNCHANGED <<kb, dl, run>>

NextInstall == CallGetInstallScripts \/ InstallCall

SpecInstall == InitInstall /\ [][NextInstall]_vars

InstallPreconditions(c) == kb.reusable[c] /\ kb.method[c] # <<>>
NonEmptyScripts(c) == SelectSeq(kb.scripts[c], LAMBDA x : x # "")

C12_ScriptsDeduplicated ==
  Returned("GetInstallScripts")
  => \A i, j \in 1..Len(ret.val) : ret.val[i] = ret.val[j] => i = j


(***************************************************************************)
(* Order of the steps of DownloaderHandler::Download                       *)
(***************************************************************************)
GithubLinks(links) == SelectSeq(links, LAMBDA l : concept_github_url \in kb.urlClass[l])
DownloadedLinks ==
  LET ev == Events(trace, {"Downloader::Download"})
  IN [k \in 1..Len(ev) |-> ev[k].link]

====
